---- MODULE Spec2Model ----
(***************************************************************************)
(* The stateful chat proxy of src/thread/app.py: POST /api/chat and        *)
(* POST /api/demo over the process-wide previous_summarization, with the   *)
(* CompletionClient of src/thread/openai_service.py as the environment.    *)
(* The streaming proxy of src/streaming/app.py is a second, independent    *)
(* process: one POST /api/chat and the event stream it is answered with.   *)
(*                                                                         *)
(* Texts are sequences of tokens; the empty text is << >>.                 *)
(***************************************************************************)
EXTENDS Integers, Sequences, FiniteSets, TLC

VARIABLES
    previous_summarization, \* app.py:16, the process-wide summary
    pc,                 \* per request: "new", "ready" (validated, handler not yet
                        \* run), "AwaitingResponse", "AwaitingSummary", "done"
    kind,               \* per request: "chat" (app.py:73) or "demo" (app.py:107)
    request,            \* per request: the "messages" list of its JSON body
    turn,               \* per request: the turn being handled (demo: 1..3)
    system_prompt,      \* per request: the local system_prompt (app.py:93, 132)
    assistant_response, \* per request: the local assistant_response (app.py:94, 133)
    response,           \* per request: the HTTP status and body it was answered with
    loop,               \* the request whose handler the event loop is running
    calls,              \* per request: the completion calls it made, in order
    commits,            \* the assignments to previous_summarization, in order
    s_pc,               \* streaming/app.py: position of the request: "new", "ready",
                        \* "completing", "streaming", "calling", "relaying", "done"
    s_request,          \* streaming/app.py: the request's messages and stream flag
    s_response,         \* streaming/app.py: the HTTP status and body answered
    s_events,           \* the server-sent events stream_response has yielded
    s_received,         \* the chunks the upstream stream has delivered
    s_error             \* the exception caught (app.py:77, 157), << >> if none

thread_vars == <<previous_summarization, pc, kind, request, turn, system_prompt,
                 assistant_response, response, loop, calls, commits>>

stream_vars == <<s_pc, s_request, s_response, s_events, s_received, s_error>>

vars == <<thread_vars, stream_vars>>

\* ---------------------------------------------------------------- bounds
MaxReqs == 2
\* the longest summary create_system_prompt is tried on
MaxSummaryLen == 2
\* the most chunks the upstream stream delivers
MaxChunks == 2

Reqs == 1..MaxReqs
NoTask == 0

\* the texts of the errors the upstream API may raise
Errors == {<<"rate limit">>, <<"bad api key">>}

\* ---------------------------------------------------------------- JSON bodies
\* a JSON value of the request body: a string (its text) or a number
JStr(text) == [t |-> "str", v |-> text]
JNum(text) == [t |-> "num", v |-> text]

RawUser(c) == [role |-> JStr(<<"user">>), content |-> JStr(c)]
RawNoRole(c) == [content |-> JStr(c)]
RawNoContent == [role |-> JStr(<<"user">>)]
RawBadRole(c) == [role |-> JStr(<<"wizard">>), content |-> JStr(c)]
RawNumContent == [role |-> JStr(<<"user">>), content |-> JNum(<<"5">>)]

\* the "messages" lists a caller sends
Bodies == { << >>,
            <<RawUser(<<"u1">>)>>,
            <<RawUser(<<"u2">>), RawUser(<<"u3">>)>>,
            <<RawNoRole(<<"u1">>)>>,
            <<RawBadRole(<<"u1">>)>>,
            <<RawNoContent>>,
            <<RawNumContent>> }

Roles == {<<"system">>, <<"user">>, <<"assistant">>}

\* ChatRequest: messages is List[Dict[str, str]]; every value of every
\* element must be a string, nothing else is required of an element
ChatRequestAccepts(body) ==
    \A i \in 1..Len(body) : \A k \in DOMAIN body[i] : body[i][k].t = "str"

\* the validated model: each element a dict from key to text
ChatRequest(body) ==
    [i \in 1..Len(body) |-> [k \in DOMAIN body[i] |-> body[i][k].v]]

demo_messages ==
    << [content |-> <<"Hi! I'm Adam">>, role |-> <<"user">>],
       [content |-> <<"How are you?">>, role |-> <<"user">>],
       [content |-> <<"Do you know my name?">>, role |-> <<"user">>] >>

\* ---------------------------------------------------------------- prompts
\* the summary block written whether or not there is a summary
create_system_prompt_block_always(summarization) ==
    [role |-> <<"system">>,
     content |-> <<"You are Alice">>
                 \o <<"Here is a summary", "<conversation_summary>">>
                 \o summarization \o <<"</conversation_summary>">>
                 \o <<"Let's chat!">>]

create_system_prompt(summarization) ==
    [role |-> <<"system">>,
     content |-> <<"You are Alice">>
                 \o (IF summarization # << >>
                     THEN <<"Here is a summary", "<conversation_summary>">>
                          \o summarization \o <<"</conversation_summary>">>
                     ELSE << >>)
                 \o <<"Let's chat!">>]

\* the directive of generate_summarization; prev is the value of the global
\* previous_summarization at the time the directive is built
summarization_prompt(prev, user_message, assistant_message) ==
    [role |-> <<"system">>,
     content |-> <<"Please summarize", "<previous_summary>">>
                 \o (IF prev # << >> THEN prev ELSE <<"No previous summary">>)
                 \o <<"</previous_summary>", "<current_turn>", "User:">>
                 \o user_message.content
                 \o <<"Assistant:">>
                 \o assistant_message.content
                 \o <<"</current_turn>">>]

update_instruction ==
    [role |-> <<"user">>, content |-> <<"Please create/update our conversation summary.">>]

ResponderModel == "gpt-4o"
SummarizerModel == "gpt-4o-mini"

\* ---------------------------------------------------------------- CompletionClient
Range(seq) == {seq[i] : i \in 1..Len(seq)}

IndexOf(seq, tok) ==
    CHOOSE i \in 1..Len(seq) : seq[i] = tok /\ \A j \in 1..(i-1) : seq[j] # tok

Between(seq, open, close) ==
    SubSeq(seq, IndexOf(seq, open) + 1, IndexOf(seq, close) - 1)

Content(m) == IF "content" \in DOMAIN m THEN m.content ELSE << >>

\* a templated summarizer: the previous summary of the directive followed by
\* the words of the user's turn it does not mention yet
StubSummary(messages) ==
    LET d == messages[1].content
        p == Between(d, "<previous_summary>", "</previous_summary>")
        prev == IF p = <<"No previous summary">> THEN << >> ELSE p
        user == Between(d, "User:", "Assistant:")
    IN  prev \o SelectSeq(user, LAMBDA w : w \notin Range(prev))

StubAnswer(messages) == <<"re:">> \o Content(messages[2])

\* the text openai.chat.completions.create answers a call with when it does
\* not fail: a deterministic function of the call
Reply(model, messages) ==
    IF model = SummarizerModel THEN StubSummary(messages) ELSE StubAnswer(messages)

\* what OpenAIService.completion returns for a reply text
completion(model, text) ==
    [message |-> [role |-> <<"assistant">>, content |-> text], model |-> model]

NoResponse == [message |-> [role |-> << >>, content |-> << >>], model |-> ""]
NoMessage == [role |-> << >>, content |-> << >>]

\* one call as the client sees it
Call(r, model, messages) ==
    [turn |-> turn[r], model |-> model, messages |-> messages,
     outcome |-> "pending", reply |-> << >>]

Last(seq) == seq[Len(seq)]

Settle(cs, outcome, reply) ==
    [cs EXCEPT ![Len(cs)] = [@ EXCEPT !.outcome = outcome, !.reply = reply]]

\* ---------------------------------------------------------------- HTTP
HTTPException(status_code, detail) == [status |-> status_code, body |-> detail]
Ok(assistant) == [status |-> 200, body |-> assistant.message.content]
NoReply == [status |-> 0, body |-> << >>]

\* str(error) of the exception the handler caught
str(error) == error

\* ---------------------------------------------------------------- scheduling
\* as if the handlers awaited their completion calls
MayRunAwaited(r) == TRUE

\* The handlers are coroutines that never await: the event loop runs one from
\* its first line to its return before it runs any other.
MayRun(r) == IF pc[r] = "ready" THEN loop = NoTask ELSE loop = r

\* no request has arrived yet
InitRequests ==
    /\ pc = [r \in Reqs |-> "new"]
    /\ kind = [r \in Reqs |-> "none"]
    /\ request = [r \in Reqs |-> << >>]
    /\ turn = [r \in Reqs |-> 0]
    /\ system_prompt = [r \in Reqs |-> NoMessage]
    /\ assistant_response = [r \in Reqs |-> NoResponse]
    /\ response = [r \in Reqs |-> NoReply]
    /\ loop = NoTask
    /\ calls = [r \in Reqs |-> << >>]
    /\ commits = << >>

\* the streaming process before its request
InitStream ==
    /\ s_pc = "new"
    /\ s_request = [messages |-> << >>, stream |-> FALSE]
    /\ s_response = NoReply
    /\ s_events = << >>
    /\ s_received = << >>
    /\ s_error = << >>

Init ==
    /\ previous_summarization = << >>
    /\ InitRequests
    /\ InitStream

\* Requests are numbered in the order the server takes them up. The server
\* reads and validates a request on the event loop, so between two handlers,
\* never in the middle of one.
NextArrival(r) ==
    /\ pc[r] = "new" /\ \A q \in Reqs : q < r => pc[q] # "new"
    /\ loop = NoTask

\* a POST /api/chat arrives and its body is validated against ChatRequest
Receive(r) ==
    /\ NextArrival(r)
    /\ \E body \in Bodies :
         /\ request' = [request EXCEPT ![r] = body]
         /\ kind' = [kind EXCEPT ![r] = "chat"]
         /\ IF ChatRequestAccepts(body)
            THEN /\ pc' = [pc EXCEPT ![r] = "ready"]
                 /\ UNCHANGED response
            ELSE /\ pc' = [pc EXCEPT ![r] = "done"]
                 /\ response' = [response EXCEPT ![r] =
                                   HTTPException(422, <<"Input should be a valid string">>)]
    /\ UNCHANGED <<previous_summarization, turn, system_prompt, assistant_response,
                   loop, calls, commits>>
    /\ UNCHANGED stream_vars

\* a POST /api/demo arrives
ReceiveDemo(r) ==
    /\ NextArrival(r)
    /\ kind' = [kind EXCEPT ![r] = "demo"]
    /\ pc' = [pc EXCEPT ![r] = "ready"]
    /\ UNCHANGED <<previous_summarization, request, turn, system_prompt,
                   assistant_response, response, loop, calls, commits>>
    /\ UNCHANGED stream_vars

\* the last message of the request taken for the turn's user message
UserMessageLast(r) ==
    IF kind[r] = "demo" THEN demo_messages[turn[r]]
    ELSE ChatRequest(request[r])[Len(request[r])]

\* the turn's user message: request.messages[0], or the demo's message
UserMessage(r) ==
    IF kind[r] = "demo" THEN demo_messages[turn[r]] ELSE ChatRequest(request[r])[1]

\* the handler ends with an HTTPException or a return
Finish(r, resp) ==
    /\ pc' = [pc EXCEPT ![r] = "done"]
    /\ response' = [response EXCEPT ![r] = resp]
    /\ loop' = NoTask

\* chat, from entry to the responder call
ChatStart(r) ==
    /\ pc[r] = "ready" /\ kind[r] = "chat" /\ MayRun(r)
    /\ IF ChatRequest(request[r]) = << >>
       THEN /\ Finish(r, HTTPException(400, <<"No messages provided">>))
            /\ UNCHANGED <<turn, system_prompt, calls>>
       ELSE /\ turn' = [turn EXCEPT ![r] = 1]
            /\ system_prompt' = [system_prompt EXCEPT ![r] =
                                   create_system_prompt(previous_summarization)]
            /\ calls' = [calls EXCEPT ![r] = Append(@,
                           [turn |-> 1, model |-> ResponderModel,
                            messages |-> <<create_system_prompt(previous_summarization),
                                           ChatRequest(request[r])[1]>>,
                            outcome |-> "pending", reply |-> << >>])]
            /\ pc' = [pc EXCEPT ![r] = "AwaitingResponse"]
            /\ loop' = r
            /\ UNCHANGED response
    /\ UNCHANGED <<previous_summarization, kind, request, assistant_response, commits>>
    /\ UNCHANGED stream_vars

\* the error of the responder call swallowed: the turn goes on to summarize
ResponderFailsGoesOn(r, error) ==
    /\ pc[r] = "AwaitingResponse" /\ MayRun(r)
    /\ calls' = [calls EXCEPT ![r] = Append(Settle(@, "fail", error),
                   Call(r, SummarizerModel,
                        <<summarization_prompt(previous_summarization,
                                               [content |-> Content(UserMessage(r))],
                                               assistant_response[r].message),
                          update_instruction>>))]
    /\ pc' = [pc EXCEPT ![r] = "AwaitingSummary"]
    /\ UNCHANGED <<previous_summarization, kind, request, turn, system_prompt,
                   assistant_response, response, loop, commits>>
    /\ UNCHANGED stream_vars

\* the responder call fails: completion re-raises, the handler answers 500
ResponderFails(r, error) ==
    /\ pc[r] = "AwaitingResponse" /\ MayRun(r)
    /\ calls' = [calls EXCEPT ![r] = Settle(@, "fail", error)]
    /\ Finish(r, HTTPException(500, str(error)))
    /\ UNCHANGED <<previous_summarization, kind, request, turn, system_prompt,
                   assistant_response, commits>>
    /\ UNCHANGED stream_vars

\* the text the pending call of r is answered with
AssistantText(r) == Reply(ResponderModel, Last(calls[r]).messages)
SummaryText(r) == Reply(SummarizerModel, Last(calls[r]).messages)

\* the responder call returns: generate_summarization builds its directive
\* from the global summary and calls the summarizer
ResponderReplies(r) ==
    /\ pc[r] = "AwaitingResponse" /\ MayRun(r)
    /\ assistant_response' = [assistant_response EXCEPT ![r] = completion(ResponderModel, AssistantText(r))]
    /\ IF "content" \in DOMAIN UserMessage(r)
       THEN /\ calls' = [calls EXCEPT ![r] = Append(Settle(@, "ok", AssistantText(r)),
                           Call(r, SummarizerModel,
                                <<summarization_prompt(previous_summarization, UserMessage(r),
                                                       completion(ResponderModel, AssistantText(r)).message),
                                  update_instruction>>))]
            /\ pc' = [pc EXCEPT ![r] = "AwaitingSummary"]
            /\ UNCHANGED <<response, loop>>
       ELSE /\ calls' = [calls EXCEPT ![r] = Settle(@, "ok", AssistantText(r))]
            /\ Finish(r, HTTPException(500, str(<<"'content'">>)))
    /\ UNCHANGED <<previous_summarization, kind, request, turn, system_prompt, commits>>
    /\ UNCHANGED stream_vars

\* the summary reset when the summarizer call fails
SummarizerFailsClears(r, error) ==
    /\ pc[r] = "AwaitingSummary" /\ MayRun(r)
    /\ calls' = [calls EXCEPT ![r] = Settle(@, "fail", error)]
    /\ previous_summarization' = << >>
    /\ pc' = [pc EXCEPT ![r] = "done"]
    /\ response' = [response EXCEPT ![r] = [status |-> 500, body |-> error]]
    /\ loop' = NoTask
    /\ UNCHANGED <<kind, request, turn, system_prompt, assistant_response, commits>>
    /\ UNCHANGED stream_vars

\* the summarizer call tried once more after a failure
SummarizerFailsRetries(r, error) ==
    /\ pc[r] = "AwaitingSummary" /\ MayRun(r)
    /\ Len(calls[r]) < 8
    /\ calls' = [calls EXCEPT ![r] = Append(Settle(@, "fail", error),
                   [Last(@) EXCEPT !.outcome = "pending"])]
    /\ UNCHANGED <<previous_summarization, pc, kind, request, turn, system_prompt,
                   assistant_response, response, loop, commits>>
    /\ UNCHANGED stream_vars

\* the summarizer call fails: the assignment of line 98 never happens
SummarizerFails(r, error) ==
    /\ pc[r] = "AwaitingSummary" /\ MayRun(r)
    /\ calls' = [calls EXCEPT ![r] = Settle(@, "fail", error)]
    /\ Finish(r, HTTPException(500, str(error)))
    /\ UNCHANGED <<previous_summarization, kind, request, turn, system_prompt,
                   assistant_response, commits>>
    /\ UNCHANGED stream_vars

\* the record of one assignment to previous_summarization
Commit(r, value) ==
    [task |-> r, turn |-> turn[r], prompt |-> system_prompt[r],
     directive |-> Last(calls[r]).messages[1],
     user |-> UserMessage(r), assistant |-> assistant_response[r].message,
     old |-> previous_summarization, new |-> value,
     waiting |-> {q \in Reqs : pc[q] = "ready"}]

\* the new text appended to the old summary
NewSummaryAppends(old, text) == old \o text

\* the value the assignment gives previous_summarization: the text
\* generate_summarization returned
NewSummary(old, text) == text

\* the demo's next system prompt built from the summary before the commit
SummarizerRepliesStale(r) ==
    /\ pc[r] = "AwaitingSummary" /\ MayRun(r)
    /\ previous_summarization' = NewSummary(previous_summarization, SummaryText(r))
    /\ commits' = Append(commits, Commit(r, previous_summarization'))
    /\ IF kind[r] = "demo" /\ turn[r] < Len(demo_messages)
       THEN /\ turn' = [turn EXCEPT ![r] = @ + 1]
            /\ system_prompt' = [system_prompt EXCEPT ![r] =
                                   create_system_prompt(previous_summarization)]
            /\ calls' = [calls EXCEPT ![r] = Append(Settle(@, "ok", SummaryText(r)),
                           [turn |-> turn[r] + 1, model |-> ResponderModel,
                            messages |-> <<create_system_prompt(previous_summarization),
                                           demo_messages[turn[r] + 1]>>,
                            outcome |-> "pending", reply |-> << >>])]
            /\ pc' = [pc EXCEPT ![r] = "AwaitingResponse"]
            /\ UNCHANGED <<response, loop>>
       ELSE /\ calls' = [calls EXCEPT ![r] = Settle(@, "ok", SummaryText(r))]
            /\ Finish(r, Ok(assistant_response[r]))
            /\ UNCHANGED <<turn, system_prompt>>
    /\ UNCHANGED <<kind, request, assistant_response>>
    /\ UNCHANGED stream_vars

\* the summarizer call returns: the summary is replaced; chat returns the
\* assistant response, demo goes on to its next message or returns the last
SummarizerReplies(r) ==
    /\ pc[r] = "AwaitingSummary" /\ MayRun(r)
    /\ previous_summarization' = NewSummary(previous_summarization, SummaryText(r))
    /\ commits' = Append(commits, Commit(r, previous_summarization'))
    /\ IF kind[r] = "demo" /\ turn[r] < Len(demo_messages)
       THEN /\ turn' = [turn EXCEPT ![r] = @ + 1]
            /\ system_prompt' = [system_prompt EXCEPT ![r] =
                                   create_system_prompt(previous_summarization')]
            /\ calls' = [calls EXCEPT ![r] = Append(Settle(@, "ok", SummaryText(r)),
                           [turn |-> turn[r] + 1, model |-> ResponderModel,
                            messages |-> <<create_system_prompt(previous_summarization'),
                                           demo_messages[turn[r] + 1]>>,
                            outcome |-> "pending", reply |-> << >>])]
            /\ pc' = [pc EXCEPT ![r] = "AwaitingResponse"]
            /\ UNCHANGED <<response, loop>>
       ELSE /\ calls' = [calls EXCEPT ![r] = Settle(@, "ok", SummaryText(r))]
            /\ Finish(r, Ok(assistant_response[r]))
            /\ UNCHANGED <<turn, system_prompt>>
    /\ UNCHANGED <<kind, request, assistant_response>>
    /\ UNCHANGED stream_vars

\* demo, from entry to the responder call of its first message
DemoStart(r) ==
    /\ pc[r] = "ready" /\ kind[r] = "demo" /\ MayRun(r)
    /\ turn' = [turn EXCEPT ![r] = 1]
    /\ system_prompt' = [system_prompt EXCEPT ![r] =
                           create_system_prompt(previous_summarization)]
    /\ calls' = [calls EXCEPT ![r] = Append(@,
                   [turn |-> 1, model |-> ResponderModel,
                    messages |-> <<create_system_prompt(previous_summarization),
                                   demo_messages[1]>>,
                    outcome |-> "pending", reply |-> << >>])]
    /\ pc' = [pc EXCEPT ![r] = "AwaitingResponse"]
    /\ loop' = r
    /\ UNCHANGED <<previous_summarization, kind, request, assistant_response,
                   response, commits>>
    /\ UNCHANGED stream_vars

Next ==
    \E r \in Reqs :
        \/ Receive(r)
        \/ ReceiveDemo(r)
        \/ ChatStart(r)
        \/ DemoStart(r)
        \/ \E error \in Errors : ResponderFails(r, error)
        \/ ResponderReplies(r)
        \/ \E error \in Errors : SummarizerFails(r, error)
        \/ SummarizerReplies(r)

Spec == Init /\ [][Next]_vars

\* ---------------------------------------------------------------- prompt construction
\* create_system_prompt on any summary text, the delimiters of the block
\* among its words: the process holds the summary and requests run up to
\* their responder call
SummaryWords == {"Adam", "<conversation_summary>", "</conversation_summary>"}

Summaries == UNION {[1..n -> SummaryWords] : n \in 0..MaxSummaryLen}

InitPrompt ==
    /\ previous_summarization \in Summaries
    /\ InitRequests
    /\ InitStream

NextPrompt ==
    \E r \in Reqs :
        \/ Receive(r)
        \/ ReceiveDemo(r)
        \/ ChatStart(r)
        \/ DemoStart(r)

SpecPrompt == InitPrompt /\ [][NextPrompt]_vars

\* ---------------------------------------------------------------- streaming variant
\* helpers.is_valid_message on an element of the validated request: both keys
\* present (ChatRequest has already made every value a string)
is_valid_message(message) ==
    "role" \in DOMAIN message /\ "content" \in DOMAIN message

stream_system_prompt ==
    [role |-> <<"system">>, content |-> <<"You are a helpful assistant">>]

\* the values int(datetime.now().timestamp()) may take; the chunk's id and
\* created field carry it (system_fingerprint, random as well, is left out)
Times == {"1730890000", "1730890001"}

starting_chunk(now) ==
    [id |-> <<"chatcmpl-", now>>, object |-> "chat.completion.chunk",
     created |-> now, model |-> "gpt-4",
     delta |-> [role |-> "assistant", content |-> "starting response"],
     finish_reason |-> "None"]

error_chunk(now) ==
    [id |-> <<"chatcmpl-", now>>, object |-> "chat.completion.chunk",
     created |-> now, model |-> "gpt-4",
     delta |-> [content |-> "An error occurred during streaming"],
     finish_reason |-> "stop"]

\* chunk.model_dump() of the chunks the upstream stream may deliver
UpstreamChunks ==
    [id : {<<"chatcmpl-", "upstream">>}, object : {"chat.completion.chunk"},
     created : {"1730890000"}, model : {"gpt-4-0613"},
     delta : {[content |-> "Hi"]}, finish_reason : {"None", "stop"}]
    \cup
    [id : {<<"chatcmpl-", "upstream">>}, object : {"chat.completion.chunk"},
     created : {"1730890000"}, model : {"gpt-4-0613"},
     delta : {[role |-> "assistant", content |-> ""]}, finish_reason : {"None"}]

\* f"data: {json.dumps(chunk)}\n\n"
SSE(chunk) == [data |-> chunk]

\* a POST /api/chat arrives at the streaming variant and is validated
StreamReceive ==
    /\ s_pc = "new"
    /\ \E body \in Bodies, flag \in BOOLEAN :
         /\ s_request' = [messages |-> body, stream |-> flag]
         /\ IF ChatRequestAccepts(body)
            THEN /\ s_pc' = "ready"
                 /\ UNCHANGED s_response
            ELSE /\ s_pc' = "done"
                 /\ s_response' = HTTPException(422, <<"Input should be a valid string">>)
    /\ UNCHANGED <<s_events, s_received, s_error>>
    /\ UNCHANGED thread_vars

\* chat of the streaming variant, up to the StreamingResponse it returns or
\* the completion it awaits
StreamChat ==
    /\ s_pc = "ready"
    /\ LET messages == ChatRequest(s_request.messages) IN
       IF messages = << >>
       THEN /\ s_pc' = "done"
            /\ s_response' = HTTPException(400, <<"Invalid or missing messages in request body">>)
       ELSE IF ~ \A i \in 1..Len(messages) : is_valid_message(messages[i])
       THEN /\ s_pc' = "done"
            /\ s_response' = HTTPException(400, <<"Invalid message format in request body">>)
       ELSE IF s_request.stream
       THEN /\ s_pc' = "streaming"
            /\ s_response' = [status |-> 200, body |-> <<"text/event-stream">>]
       ELSE /\ s_pc' = "completing"
            /\ UNCHANGED s_response
    /\ UNCHANGED <<s_request, s_events, s_received, s_error>>
    /\ UNCHANGED thread_vars

\* the awaited completion of the non-streaming branch returns
CompletionReturns ==
    /\ s_pc = "completing"
    /\ s_pc' = "done"
    /\ s_response' = [status |-> 200,
                      body |-> StubAnswer(<<stream_system_prompt>>
                                          \o ChatRequest(s_request.messages))]
    /\ UNCHANGED <<s_request, s_events, s_received, s_error>>
    /\ UNCHANGED thread_vars

\* the awaited completion of the non-streaming branch raises
CompletionFails(error) ==
    /\ s_pc = "completing"
    /\ s_pc' = "done"
    /\ s_error' = error
    /\ s_response' = HTTPException(500, <<"An error occurred while processing your request">>)
    /\ UNCHANGED <<s_request, s_events, s_received>>
    /\ UNCHANGED thread_vars

\* stream_response is started by the response being sent: the starting chunk
StreamStart ==
    /\ s_pc = "streaming"
    /\ \E now \in Times : s_events' = Append(s_events, SSE(starting_chunk(now)))
    /\ s_pc' = "calling"
    /\ UNCHANGED <<s_request, s_response, s_received, s_error>>
    /\ UNCHANGED thread_vars

\* except Exception of stream_response: the error chunk, and the generator ends
StreamCatches(error) ==
    /\ s_error' = error
    /\ \E now \in Times : s_events' = Append(s_events, SSE(error_chunk(now)))
    /\ s_pc' = "done"
    /\ UNCHANGED <<s_request, s_response, s_received>>
    /\ UNCHANGED thread_vars

\* OpenAIService() or completion(messages, stream=True) raises
StreamCallFails(error) ==
    /\ s_pc = "calling"
    /\ StreamCatches(error)

\* completion(messages, stream=True) returns the upstream stream
StreamCallReturns ==
    /\ s_pc = "calling"
    /\ s_pc' = "relaying"
    /\ UNCHANGED <<s_request, s_response, s_events, s_received, s_error>>
    /\ UNCHANGED thread_vars

\* the upstream stream delivers a chunk, which is yielded
StreamChunk(chunk) ==
    /\ s_pc = "relaying"
    /\ Len(s_received) < MaxChunks
    /\ s_received' = Append(s_received, chunk)
    /\ s_events' = Append(s_events, SSE(chunk))
    /\ UNCHANGED <<s_pc, s_request, s_response, s_error>>
    /\ UNCHANGED thread_vars

\* the exception of the iteration escapes the generator
StreamIterFailsUncaught(error) ==
    /\ s_pc = "relaying"
    /\ s_error' = error
    /\ s_pc' = "done"
    /\ UNCHANGED <<s_request, s_response, s_events, s_received>>
    /\ UNCHANGED thread_vars

\* the iteration over the upstream stream (or closing the client) raises
StreamIterFails(error) ==
    /\ s_pc = "relaying"
    /\ StreamCatches(error)

\* the upstream stream ends and the client is closed
StreamEnds ==
    /\ s_pc = "relaying"
    /\ s_pc' = "done"
    /\ UNCHANGED <<s_request, s_response, s_events, s_received, s_error>>
    /\ UNCHANGED thread_vars

NextStream ==
    \/ StreamReceive
    \/ StreamChat
    \/ CompletionReturns
    \/ \E error \in Errors : CompletionFails(error)
    \/ StreamStart
    \/ \E error \in Errors : StreamCallFails(error)
    \/ StreamCallReturns
    \/ \E chunk \in UpstreamChunks : StreamChunk(chunk)
    \/ \E error \in Errors : StreamIterFails(error)
    \/ StreamEnds

SpecStream == Init /\ [][NextStream]_vars

\* ---------------------------------------------------------------- claims
\* the summary a system prompt was built from
ReadSummary(prompt) ==
    IF "<conversation_summary>" \in Range(prompt.content)
    THEN Between(prompt.content, "<conversation_summary>", "</conversation_summary>")
    ELSE << >>

Responder(c) == c.model = ResponderModel
Summarizer(c) == c.model = SummarizerModel

\* the step in which the summarizer call of r's turn fails
SummarizerFailure(r) ==
    /\ pc[r] = "AwaitingSummary"
    /\ calls'[r][Len(calls[r])].outcome = "fail"

\* the step in which the responder call of r's turn fails
ResponderFailure(r) ==
    /\ pc[r] = "AwaitingResponse"
    /\ calls'[r][Len(calls[r])].outcome = "fail"

\* task r ended a turn whose responder call succeeded and whose summarizer
\* call failed
SummarizerFailed(r) ==
    /\ pc[r] = "done" /\ calls[r] # << >>
    /\ Summarizer(Last(calls[r])) /\ Last(calls[r]).outcome = "fail"

\* C1: when the responder call of a turn succeeds and its summarizer call
\* fails, the summary after the turn is the summary before the failure and
\* the summary the turn started from
C1_SummaryKeptOnSummarizerFailure ==
    [][\A r \in Reqs : SummarizerFailure(r) =>
          /\ pc'[r] = "done"
          /\ previous_summarization' = previous_summarization
          /\ previous_summarization' = ReadSummary(system_prompt[r])]_vars

\* a turn ended on a summarizer failure after an earlier turn had committed
\* a summary
C1_Witness ==
    \E r \in Reqs : SummarizerFailed(r) /\ previous_summarization # << >>

\* C2: when the responder call succeeds and the summarizer call fails, the
\* turn answers 200 with the responder's assistant message
C2_AnswerSurvivesSummarizerFailure ==
    \A r \in Reqs : (kind[r] = "chat" /\ SummarizerFailed(r)) =>
        /\ response[r].status = 200
        /\ response[r].body = assistant_response[r].message.content

\* C3: when the responder call of a turn fails, the turn ends with an error,
\* no summarizer call is made for the turn and the summary is unchanged
C3_ResponderFailureAbortsTurn ==
    [][\A r \in Reqs : ResponderFailure(r) =>
          /\ pc'[r] = "done" /\ response'[r].status = 500
          /\ \A i \in 1..Len(calls'[r]) :
                 calls'[r][i].turn = turn[r] => Responder(calls'[r][i])
          /\ previous_summarization' = previous_summarization
          /\ previous_summarization' = ReadSummary(system_prompt[r])
          /\ commits' = commits]_vars

\* a turn ended on a responder failure after an earlier turn had committed a
\* summary
C3_Witness ==
    \E r \in Reqs :
        /\ pc[r] = "done" /\ calls[r] # << >>
        /\ Responder(Last(calls[r])) /\ Last(calls[r]).outcome = "fail"
        /\ response[r].status = 500
        /\ previous_summarization # << >>

\* the tasks between reading the summary and committing the new one
InSection == {r \in Reqs : pc[r] \in {"AwaitingResponse", "AwaitingSummary"}}

\* the words of the user's turns that were committed
Committed == UNION {Range(Content(commits[i].user)) : i \in 1..Len(commits)}

\* C4: the read-to-commit sections of turns in flight together never
\* interleave: every commit was built, prompt and directive, from the summary
\* of the commit before it, and the summary reflects every committed turn
C4_TurnsSerialized ==
    /\ Cardinality(InSection) <= 1
    /\ \A i \in 1..Len(commits) :
         LET before == IF i = 1 THEN << >> ELSE commits[i-1].new IN
         /\ commits[i].old = before
         /\ commits[i].prompt = create_system_prompt(before)
         /\ commits[i].directive =
                summarization_prompt(before, commits[i].user, commits[i].assistant)
    /\ Committed \subseteq Range(previous_summarization)

\* two chat turns were in flight together and both committed
C4_Witness ==
    \E i, j \in 1..Len(commits) :
        /\ i < j
        /\ kind[commits[i].task] = "chat" /\ kind[commits[j].task] = "chat"
        /\ commits[j].task \in commits[i].waiting
        /\ commits[i].user # commits[j].user

\* the calls of task r for turn k
TurnCalls(r, k) == SelectSeq(calls[r], LAMBDA c : c.turn = k)

\* the commits of task r for turn k
TurnCommits(r, k) == SelectSeq(commits, LAMBDA c : c.task = r /\ c.turn = k)

\* C5: a turn issues exactly one responder call, then at most one summarizer
\* call and only after the responder call succeeded; no call is repeated;
\* the summary is committed after the summarizer reply and before the answer
C5_TurnStateMachine ==
    \A r \in Reqs :
        /\ pc[r] = "AwaitingResponse" =>
               Responder(Last(calls[r])) /\ Last(calls[r]).outcome = "pending"
        /\ pc[r] = "AwaitingSummary" =>
               Summarizer(Last(calls[r])) /\ Last(calls[r]).outcome = "pending"
        /\ pc[r] \in {"new", "ready"} => calls[r] = << >>
        /\ \A i \in 1..Len(calls[r]) :
               /\ calls[r][i].outcome = "pending" => i = Len(calls[r])
               /\ calls[r][i].turn \in 1..turn[r]
        /\ \A k \in 1..turn[r] :
             LET cs == TurnCalls(r, k)
                 cm == TurnCommits(r, k)
             IN  /\ Len(cs) \in {1, 2}
                 /\ Responder(cs[1])
                 /\ Len(cs) = 2 => Summarizer(cs[2]) /\ cs[1].outcome = "ok"
                 /\ Len(cm) <= 1
                 /\ Len(cm) = 1 <=> (Len(cs) = 2 /\ cs[2].outcome = "ok")
                 /\ Len(cm) = 1 => cm[1].new = cs[2].reply
        /\ (pc[r] = "done" /\ response[r].status = 200) =>
               /\ turn[r] >= 1
               /\ Len(TurnCommits(r, turn[r])) = 1
               /\ response[r].body = TurnCalls(r, turn[r])[1].reply

\* a chat turn went through both calls, committed and answered
C5_Witness ==
    \E r \in Reqs :
        /\ kind[r] = "chat" /\ pc[r] = "done" /\ response[r].status = 200
        /\ Len(calls[r]) = 2 /\ Len(TurnCommits(r, 1)) = 1

\* a "messages" list the interface calls invalid: empty, or with an element
\* whose content is not a string or whose role is missing or unknown
Invalid(body) ==
    \/ body = << >>
    \/ \E i \in 1..Len(body) :
         \/ "content" \notin DOMAIN body[i]
         \/ "role" \notin DOMAIN body[i]
         \/ body[i].content.t # "str"
         \/ body[i].role.t # "str"
         \/ body[i].role.v \notin Roles

\* C6: POST /api/chat answers 400 to every invalid request, makes no
\* CompletionClient call for it and leaves the summary alone
C6_InvalidRequestsRejected ==
    \A r \in Reqs : (kind[r] = "chat" /\ Invalid(request[r])) =>
        /\ calls[r] = << >>
        /\ pc[r] = "done" => response[r].status = 400

\* task r answered 500 because a CompletionClient call failed
ClientFailed(r) ==
    /\ pc[r] = "done" /\ response[r].status = 500
    /\ calls[r] # << >> /\ Last(calls[r]).outcome = "fail"

\* C7: the body of a 500 does not depend on the upstream error
C7_OpaqueErrorBody ==
    \A r, q \in Reqs : (ClientFailed(r) /\ ClientFailed(q)) =>
        response[r].body = response[q].body

\* no summarizer call has returned since the process started
NoTurnCompleted ==
    \A r \in Reqs : \A i \in 1..Len(calls[r]) :
        ~(Summarizer(calls[r][i]) /\ calls[r][i].outcome = "ok")

\* C8: the summary is empty until a turn completes, and then is exactly the
\* text the summarizer call of the last committed turn returned
C8_SummaryIsLastReply ==
    /\ NoTurnCompleted => previous_summarization = << >> /\ commits = << >>
    /\ ~NoTurnCompleted =>
         /\ commits # << >>
         /\ previous_summarization = Last(commits).new
         /\ LET cs == TurnCalls(Last(commits).task, Last(commits).turn) IN
            /\ Len(cs) = 2 /\ cs[2].outcome = "ok"
            /\ previous_summarization = cs[2].reply

\* a second commit replaced a summary that was not empty
C8_Witness ==
    /\ Len(commits) >= 2
    /\ Last(commits).old # << >>
    /\ Last(commits).new # Last(commits).old
    /\ previous_summarization = Last(commits).new

\* the summary the demo run r had after its turn k (before its first turn:
\* the one its first system prompt was built from)
DemoSummary(r, k) ==
    IF k = 0 THEN ReadSummary(calls[r][1].messages[1]) ELSE calls[r][2 * k].reply

\* C9: the demo runs its three turns in order, each turn's prompt and
\* directive built from the summary the turn before committed, and returns
\* the third assistant response
C9_DemoSequential ==
    \A r \in Reqs : kind[r] = "demo" =>
        /\ Len(calls[r]) <= 2 * Len(demo_messages)
        /\ \A i \in 1..Len(calls[r]) :
             LET k == (i + 1) \div 2
                 prev == DemoSummary(r, k - 1)
             IN  /\ calls[r][i].turn = k
                 /\ i > 1 => calls[r][i-1].outcome = "ok"
                 /\ (i > 1 /\ i % 2 = 1) =>
                        /\ Len(TurnCommits(r, k - 1)) = 1
                        /\ TurnCommits(r, k - 1)[1].new = prev
                 /\ IF i % 2 = 1
                    THEN /\ Responder(calls[r][i])
                         /\ calls[r][i].messages =
                                <<create_system_prompt(prev), demo_messages[k]>>
                    ELSE /\ Summarizer(calls[r][i])
                         /\ calls[r][i].messages =
                                <<summarization_prompt(prev, demo_messages[k],
                                      completion(ResponderModel, calls[r][i-1].reply).message),
                                  update_instruction>>
        /\ (pc[r] = "done" /\ response[r].status = 200) =>
               /\ Len(calls[r]) = 2 * Len(demo_messages)
               /\ Last(calls[r]).outcome = "ok"
               /\ response[r].body = calls[r][2 * Len(demo_messages) - 1].reply

\* a demo run that started from a committed summary returned its answer
C9_Witness ==
    \E r \in Reqs :
        /\ kind[r] = "demo" /\ pc[r] = "done" /\ response[r].status = 200
        /\ DemoSummary(r, 0) # << >>
        /\ Len(TurnCommits(r, 3)) = 1

\* the summary a deterministic client produces from the summary a turn read
\* for its system prompt and the turn's two messages
SummaryOf(prompt, user, assistant) ==
    Reply(SummarizerModel,
          <<summarization_prompt(ReadSummary(prompt), user, assistant), update_instruction>>)

\* C10: the new summary of a successful turn is a function of the summary
\* the turn read for its system prompt, its user content and its assistant
\* content, whatever else is in progress
C10_SummaryFunctionOfTurn ==
    /\ \A i \in 1..Len(commits) :
         commits[i].new =
             SummaryOf(commits[i].prompt, commits[i].user, commits[i].assistant)
    /\ \A i, j \in 1..Len(commits) :
         (/\ commits[i].prompt = commits[j].prompt
          /\ commits[i].user.content = commits[j].user.content
          /\ commits[i].assistant.content = commits[j].assistant.content)
         => commits[i].new = commits[j].new

\* a turn committed a summary built on an earlier one while another request
\* was waiting to run
C10_Witness ==
    \E i \in 1..Len(commits) :
        /\ commits[i].waiting # {}
        /\ commits[i].old # << >>
        /\ commits[i].new # commits[i].old

\* the words of text t stand in seq, in order, from position i on
At(seq, i, t) ==
    /\ i + Len(t) - 1 <= Len(seq)
    /\ \A j \in 1..Len(t) : seq[i + j - 1] = t[j]

\* the system prompt p carries no summary block (summary empty), or carries
\* the summary s word for word between the two delimiters
CarriesSummary(p, s) ==
    /\ p.role = <<"system">>
    /\ IF s = << >>
       THEN /\ "<conversation_summary>" \notin Range(p.content)
            /\ "</conversation_summary>" \notin Range(p.content)
       ELSE \E i \in 1..Len(p.content) :
              /\ p.content[i] = "<conversation_summary>"
              /\ \A j \in 1..(i-1) : p.content[j] # "<conversation_summary>"
              /\ At(p.content, i + 1, s)
              /\ i + Len(s) + 1 <= Len(p.content)
              /\ p.content[i + Len(s) + 1] = "</conversation_summary>"
              /\ \A j \in (i + Len(s) + 2)..Len(p.content) :
                     p.content[j] \notin SummaryWords

\* C11: create_system_prompt gives a system message with no summary block
\* for the empty summary and with the summary verbatim between the
\* delimiters otherwise, and the responder call of a turn receives exactly
\* that prompt followed by the user message
C11_SystemPromptCarriesSummary ==
    /\ CarriesSummary(create_system_prompt(previous_summarization), previous_summarization)
    /\ \A r \in Reqs : \A i \in 1..Len(calls[r]) :
         Responder(calls[r][i]) =>
             /\ Len(calls[r][i].messages) = 2
             /\ calls[r][i].messages[1] = system_prompt[r]
             /\ CarriesSummary(calls[r][i].messages[1], previous_summarization)
             /\ calls[r][i].messages[2] =
                    IF kind[r] = "demo" THEN demo_messages[calls[r][i].turn]
                    ELSE ChatRequest(request[r])[1]

\* a chat turn sent its responder call with a summary that itself holds a
\* closing delimiter
C11_Witness ==
    \E r \in Reqs :
        /\ kind[r] = "chat" /\ pc[r] = "AwaitingResponse"
        /\ Len(previous_summarization) = MaxSummaryLen
        /\ "</conversation_summary>" \in Range(previous_summarization)
        /\ Responder(Last(calls[r]))

\* the words of the messages after the first in r's request
LaterWords(r) ==
    UNION {Range(Content(ChatRequest(request[r])[i])) : i \in 2..Len(request[r])}

\* C12: a chat request with more than one message is one turn on its first
\* message: the later messages reach no CompletionClient call and leave no
\* trace in the assistant response or in the summary
C12_OnlyFirstMessageUsed ==
    \A r \in Reqs : (kind[r] = "chat" /\ Len(request[r]) > 1) =>
        LET first == ChatRequest(request[r])[1] IN
        /\ Len(calls[r]) <= 2
        /\ \A i \in 1..Len(calls[r]) :
             /\ calls[r][i].turn = 1
             /\ \A k \in 1..Len(calls[r][i].messages) :
                    Range(calls[r][i].messages[k].content) \cap LaterWords(r) = {}
             /\ Range(calls[r][i].reply) \cap LaterWords(r) = {}
        /\ Len(calls[r]) >= 1 => calls[r][1].messages = <<system_prompt[r], first>>
        /\ Len(calls[r]) = 2 =>
               calls[r][2].messages =
                   <<summarization_prompt(ReadSummary(system_prompt[r]), first,
                                          completion(ResponderModel, calls[r][1].reply).message),
                     update_instruction>>
        /\ Range(response[r].body) \cap LaterWords(r) = {}
        /\ Range(previous_summarization) \cap LaterWords(r) = {}
        /\ \A i \in 1..Len(commits) :
               commits[i].task = r => commits[i].user = first

\* a chat request of two messages answered 200 and committed its summary
C12_Witness ==
    \E r \in Reqs :
        /\ kind[r] = "chat" /\ Len(request[r]) > 1
        /\ pc[r] = "done" /\ response[r].status = 200
        /\ Len(TurnCommits(r, 1)) = 1
        /\ previous_summarization = TurnCommits(r, 1)[1].new

\* the request was answered with a StreamingResponse
Streamed == s_pc \in {"streaming", "calling", "relaying"} \/ s_events # << >>

\* the positions of the error chunk in the stream
ErrorEvents ==
    {i \in 1..Len(s_events) : \E now \in Times : s_events[i] = SSE(error_chunk(now))}

\* C13: a stream is the starting chunk (fixed but for its timestamp), then the upstream chunks in the order
\* received; a failure of the upstream call or iteration adds exactly one
\* error chunk with finish_reason "stop" as the last event and ends the
\* stream; the response stays the 200 already returned
C13_StreamShape ==
    /\ s_events # << >> =>
         /\ \E now \in Times : s_events[1] = SSE(starting_chunk(now))
         /\ Len(s_events) >= Len(s_received) + 1
         /\ \A i \in 1..Len(s_received) : s_events[i + 1] = SSE(s_received[i])
    /\ s_events = << >> => s_received = << >>
    /\ (Streamed /\ s_error = << >>) =>
         /\ Len(s_events) \in {0, Len(s_received) + 1}
         /\ ErrorEvents = {}
    /\ (Streamed /\ s_error # << >>) =>
         /\ s_pc = "done"
         /\ Len(s_events) = Len(s_received) + 2
         /\ ErrorEvents = {Len(s_events)}
         /\ s_events[Len(s_events)].data.finish_reason = "stop"
    /\ Streamed => s_response.status = 200
    /\ s_response.status = 500 => (~s_request.stream /\ s_events = << >>)

\* the upstream stream failed after it had delivered chunks
C13_Witness ==
    /\ Streamed /\ s_error # << >>
    /\ Len(s_received) >= 2
    /\ s_received[1] # s_received[2]

====
